---- MODULE Spec2Model ----
(***************************************************************************)
(* A model of the CSV importer of src/main.py: the Database connection     *)
(* manager, the chunked Importer and the Tk callbacks of App.               *)
(*                                                                         *)
(* The GUI is single threaded: a callback runs to its end before the next  *)
(* event is served.  App.import_data is split into its steps (drop, build  *)
(* the Importer, open the file, one step per chunk, alert) so that the     *)
(* intermediate states of a run can be observed; pc keeps every other      *)
(* callback disabled until the running one has returned.                   *)
(*                                                                         *)
(* pandas, SQLAlchemy and the PostgreSQL server are the environment: a     *)
(* file is described by its row count and the position of its malformed    *)
(* row, a table by the sequence of rows it holds, and every call that      *)
(* goes to the server draws its outcome (success or an exception) from a   *)
(* small set.  Rows are identified by their line number in the file; row   *)
(* 0 stands for a row that was in the database before the program ran.     *)
(***************************************************************************)
EXTENDS Integers, Sequences, FiniteSets, TLC

\* Largest number of data rows of a source file.
MaxRows == 4

\* Rows per batch in the model; stands for the 10 ** 5 of line 10.
ChunkRows == 2

\* Most rows a table may hold when a caller starts an import (SpecApi only:
\* under Spec every import is preceded by a drop).
MaxStart == 2

CHUNKSIZE == ChunkRows

\* The tables the server may hold: "t" is the one a caller names, "u" a
\* bystander.
TableNames == {"t", "u"}

\* What a caller passes, or types into the entry, as table name.
Names == {"", "t"}

Min(a, b) == IF a <= b THEN a ELSE b

Range(lo, hi) == [i \in 1..(hi - lo + 1) |-> lo + i - 1]

(***************************************************************************)
(* The environment: source files and database tables.                      *)
(***************************************************************************)

\* The path "" of a fresh StringVar, or any path that names no file.
NoFile == [kind |-> "missing", rows |-> 0, bad |-> 0]

\* A file of zero bytes: no header line.
EmptyFile == [kind |-> "empty", rows |-> 0, bad |-> 0]

\* A delimited file with a header, `rows` data rows, of which row `bad`
\* (0: none) is malformed.
Files ==
    {NoFile, EmptyFile}
        \cup {f \in [kind : {"csv"}, rows : 0..MaxRows, bad : 0..MaxRows] : f.bad <= f.rows}

\* The data rows of a well-formed file, in file order.
FileRows(f) == Range(1, f.rows)

NoTable == [exists |-> FALSE, rows |-> <<>>]

Table(rows) == [exists |-> TRUE, rows |-> rows]

\* What table "t" may hold before the program touches it.
InitialTables == {NoTable, Table(<<>>), Table(<<0>>)}

(***************************************************************************)
(* Logging and alerts.                                                     *)
(***************************************************************************)

Entry(level, msg, arg) == [level |-> level, msg |-> msg, arg |-> arg]

NoAlert == [kind |-> "none", title |-> "", msg |-> ""]

Alert(kind, title, msg) == [kind |-> kind, title |-> title, msg |-> msg]

(***************************************************************************)
(* Database.                                                               *)
(***************************************************************************)

\* Database.__init__ / create_engine: the engine URL; no connection is opened.
create_engine(dbname, user, password, host) ==
    <<"postgresql://", user, ":", password, "@", host, "/", dbname>>

\* Outcomes of a call that goes to the server.
DbErrors == {"OperationalError", "ProgrammingError"}

DbOutcomes == {"ok"} \cup DbErrors

\* Database.test_connection: the log entries and the exception raised.
test_connection(outcome) ==
    CASE outcome = "ok" -> [log |-> <<>>, raised |-> "none"]
      [] outcome = "OperationalError" ->
            [log |-> <<Entry("error", "connect_failed", "")>>, raised |-> outcome]
      [] OTHER ->
            [log |-> <<Entry("error", "connect_unexpected", outcome)>>, raised |-> outcome]

\* Fault variant of drop_missing: NoSuchTableError falls to the catch-all
\* handler, which logs an error and raises.
drop_missing_raises(tabs, name) ==
    [tables |-> tabs, log |-> <<Entry("error", "drop_unexpected", "NoSuchTableError")>>,
     raised |-> "NoSuchTableError", net |-> 1]

\* drop_table when the reflection finds no table: NoSuchTableError is caught
\* and logged at info level.
drop_missing(tabs, name) ==
    [tables |-> tabs, log |-> <<Entry("info", "table_missing", name)>>,
     raised |-> "none", net |-> 1]

\* Fault variant of drop_existing: the success is logged, the table stays.
drop_existing_keeps(tabs, name) ==
    [tables |-> tabs, log |-> <<Entry("info", "table_dropped", name)>>,
     raised |-> "none", net |-> 1]

\* drop_table when the reflection finds the table: table.drop(engine).
drop_existing(tabs, name) ==
    [tables |-> [tabs EXCEPT ![name] = NoTable],
     log |-> <<Entry("info", "table_dropped", name)>>,
     raised |-> "none", net |-> 1]

\* Database.drop_table on the tables `tabs`: the tables afterwards, the log
\* entries, the exception raised ("none": normal return) and the calls to
\* the server.  `outcome` is "ok" when the server answers, else the exception
\* of the reflection or of the drop.
drop_table(tabs, name, outcome) ==
    IF name = ""
    THEN [tables |-> tabs, log |-> <<Entry("error", "table_name_invalid", "")>>,
          raised |-> "ValueError", net |-> 0]
    ELSE IF outcome # "ok"
    THEN [tables |-> tabs, log |-> <<Entry("error", "drop_unexpected", outcome)>>,
          raised |-> outcome, net |-> 1]
    ELSE IF ~tabs[name].exists
    THEN drop_missing(tabs, name)
    ELSE drop_existing(tabs, name)

(***************************************************************************)
(* Importer.                                                               *)
(***************************************************************************)

NoImporter ==
    [state |-> "none", file_path |-> NoFile, table_name |-> "", opened |-> FALSE,
     pos |-> 0, chunks |-> 0, batches |-> 0, written |-> <<>>, total_rows |-> 0,
     raised |-> "none"]

\* Importer.__init__
NewImporter(path) == [NoImporter EXCEPT !.state = "not_started", !.file_path = path]

Terminal == {"completed", "aborted"}

\* pd.read_csv(path, chunksize=...): building the reader opens the file and
\* parses the header.
read_csv(f) ==
    CASE f.kind = "missing" -> "FileNotFoundError"
      [] f.kind = "empty" -> "EmptyDataError"
      [] OTHER -> "none"

\* Fault variant of next_chunk: a chunk holds one row more than CHUNKSIZE.
next_chunk_wide(f, pos, chunks) ==
    LET hi == Min(pos + CHUNKSIZE + 1, f.rows)
    IN  IF pos = f.rows
        THEN IF chunks = 0
             THEN [kind |-> "chunk", rows |-> <<>>]
             ELSE [kind |-> "stop", rows |-> <<>>]
        ELSE IF f.bad \in (pos + 1)..hi
        THEN [kind |-> "ParserError", rows |-> <<>>]
        ELSE [kind |-> "chunk", rows |-> Range(pos + 1, hi)]

\* The reader's next chunk after `pos` rows and `chunks` chunks: up to
\* CHUNKSIZE rows, a parse error if one of them is malformed, the end of the
\* iteration when no row is left.  A file with no data row yields one empty
\* chunk (the frame of its header) before the iteration ends.
next_chunk(f, pos, chunks) ==
    LET hi == Min(pos + CHUNKSIZE, f.rows)
    IN  IF pos = f.rows
        THEN IF chunks = 0
             THEN [kind |-> "chunk", rows |-> <<>>]
             ELSE [kind |-> "stop", rows |-> <<>>]
        ELSE IF f.bad \in (pos + 1)..hi
        THEN [kind |-> "ParserError", rows |-> <<>>]
        ELSE [kind |-> "chunk", rows |-> Range(pos + 1, hi)]

\* chunk.to_sql(name, engine, if_exists='append'): one transaction that
\* creates the table when it is missing and appends the chunk's rows.
to_sql(tabs, name, rows) ==
    [tabs EXCEPT ![name] = Table(tabs[name].rows \o rows)]

WriteErrors == {"IntegrityError", "OperationalError"}

WriteOutcomes == {"ok"} \cup WriteErrors

\* Fault variant of import_begin: the table name is not validated.
import_begin_unchecked(imp, name) ==
    [importer |-> [imp EXCEPT !.state = "streaming", !.table_name = name, !.total_rows = 0],
     log |-> <<>>]

\* Importer.import_data up to the try: the table name is validated and the
\* running count starts at 0.
import_begin(imp, name) ==
    IF name = ""
    THEN [importer |-> [imp EXCEPT !.state = "aborted", !.table_name = name,
                                   !.raised = "ValueError"],
          log |-> <<Entry("error", "table_name_invalid", "")>>]
    ELSE [importer |-> [imp EXCEPT !.state = "streaming", !.table_name = name,
                                   !.total_rows = 0],
          log |-> <<>>]

\* The call of pd.read_csv that starts the loop.
import_open(imp) ==
    LET e == read_csv(imp.file_path)
    IN  CASE e = "none" -> [importer |-> [imp EXCEPT !.opened = TRUE], log |-> <<>>]
          [] e = "FileNotFoundError" ->
                [importer |-> [imp EXCEPT !.opened = TRUE, !.state = "aborted", !.raised = e],
                 log |-> <<Entry("error", "file_not_found", "")>>]
          [] OTHER ->
                [importer |-> [imp EXCEPT !.opened = TRUE, !.state = "aborted", !.raised = e],
                 log |-> <<Entry("error", "import_unexpected", e)>>]

\* Fault variant of loop_end: the loop is not left at the end of the file.
loop_end_stuck(imp, tabs) ==
    [importer |-> imp, tables |-> tabs, log |-> <<>>, net |-> 0]

\* The iteration has ended: the loop is left and import_data returns.
loop_end(imp, tabs) ==
    [importer |-> [imp EXCEPT !.state = "completed"], tables |-> tabs, log |-> <<>>,
     net |-> 0]

\* Fault variant of write_failed: the failure removes what earlier batches
\* wrote.
write_failed_rollback(read, tabs, e, created) ==
    [importer |-> [read EXCEPT !.state = "aborted", !.raised = e],
     tables |-> [tabs EXCEPT ![read.table_name] = NoTable],
     log |-> <<Entry("error", "import_unexpected", e)>>, net |-> 1]

\* to_sql raised e on the chunk that left the reader in state `read`: the
\* handler logs it and raises it again.  The rows of the chunk are inserted
\* in one transaction, so none of them is written, and the earlier batches
\* stay; `created` tells whether the table, when it was missing, had been
\* created before the failure (pandas versions differ: CREATE TABLE is in
\* the transaction of the insert or in one of its own).
write_failed(read, tabs, e, created) ==
    [importer |-> [read EXCEPT !.state = "aborted", !.raised = e],
     tables |-> IF created THEN to_sql(tabs, read.table_name, <<>>) ELSE tabs,
     log |-> <<Entry("error", "import_unexpected", e)>>, net |-> 1]

\* One iteration of the loop: the next chunk is read and written with
\* outcome w, and the running count is logged; the end of the iteration
\* ends the run, any exception is logged and raised again.
import_chunk(imp, tabs, w, created) ==
    LET c == next_chunk(imp.file_path, imp.pos, imp.chunks)
        read == [imp EXCEPT !.pos = imp.pos + Len(c.rows), !.chunks = imp.chunks + 1]
        total == imp.total_rows + Len(c.rows)
    IN  CASE c.kind = "stop" -> loop_end(imp, tabs)
          [] c.kind = "chunk" /\ w = "ok" ->
                [importer |-> [read EXCEPT !.batches = imp.batches + 1,
                                           !.written = Append(imp.written, c.rows),
                                           !.total_rows = total],
                 tables |-> to_sql(tabs, imp.table_name, c.rows),
                 log |-> <<Entry("info", "rows_imported", total)>>, net |-> 1]
          [] c.kind = "chunk" /\ w # "ok" -> write_failed(read, tabs, w, created)
          [] OTHER ->
                [importer |-> [imp EXCEPT !.state = "aborted", !.raised = c.kind],
                 tables |-> tabs,
                 log |-> <<Entry("error", "import_unexpected", c.kind)>>, net |-> 0]

(***************************************************************************)
(* State.                                                                  *)
(***************************************************************************)

VARIABLES
    db,          \* App.db: the engine URL of the Database handle, NoDb for None
    tables,      \* the server: what each table holds
    file_path,   \* App.file_path
    pc,          \* where the running callback stands; "idle": none is running
    table_name,  \* the local table_name of App.import_data
    importer,    \* the Importer of the running import
    log,         \* the log entries of the latest callback or call
    alert,       \* the messagebox of the latest callback
    escaped,     \* the exception that left the latest callback or call uncaught
    net,         \* the calls to the server of the latest callback or call
    event,       \* the latest callback or call, and the field values it read
    tested,      \* the handle in App.db passed Database.test_connection
    pre          \* db and tables when the latest callback or call began

vars ==
    <<db, tables, file_path, pc, table_name, importer, log, alert, escaped, net,
      event, tested, pre>>

NoDb == <<>>

Fields == {"", "x"}

Event(op, dbname, user, password, host) ==
    [op |-> op, dbname |-> dbname, user |-> user, password |-> password, host |-> host]

Snapshot == [db |-> db, tables |-> tables]

Init ==
    /\ db = NoDb
    /\ \E t \in InitialTables : tables = [n \in TableNames |-> IF n = "t" THEN t ELSE Table(<<0>>)]
    /\ file_path = NoFile
    /\ pc = "idle"
    /\ table_name = ""
    /\ importer = NoImporter
    /\ log = <<>>
    /\ alert = NoAlert
    /\ escaped = "none"
    /\ net = 0
    /\ event = Event("none", "", "", "", "")
    /\ tested = FALSE
    /\ pre = Snapshot

(***************************************************************************)
(* App: the Tk callbacks.                                                  *)
(***************************************************************************)

\* Fault variant of fields_missing: the host entry is not checked.
fields_missing_no_host(dbname, user, password, host) ==
    dbname = "" \/ user = "" \/ password = ""

\* The check of the four entries in App.test_connection.
fields_missing(dbname, user, password, host) ==
    dbname = "" \/ user = "" \/ password = "" \/ host = ""

\* App.browse_file
browse_file ==
    /\ pc = "idle"
    /\ \E f \in Files : file_path' = f
    /\ event' = Event("browse_file", "", "", "", "")
    /\ table_name' = ""
    /\ log' = <<>>
    /\ alert' = NoAlert
    /\ escaped' = "none"
    /\ net' = 0
    /\ pre' = Snapshot
    /\ importer' = NoImporter
    /\ UNCHANGED <<db, tables, pc, tested>>

\* App.test_connection, with the values of the four entries and the
\* outcome of the connection attempt.
App_test_connection(dbname, user, password, host, outcome) ==
    LET r == test_connection(outcome)
    IN  /\ pc = "idle"
        /\ event' = Event("test_connection", dbname, user, password, host)
        /\ table_name' = ""
        /\ escaped' = "none"
        /\ pre' = Snapshot
        /\ IF fields_missing(dbname, user, password, host)
           THEN /\ alert' = Alert("showerror", "Testar Conexao", "fields_required")
                /\ log' = <<>>
                /\ net' = 0
                /\ UNCHANGED <<db, tested>>
           ELSE /\ db' = create_engine(dbname, user, password, host)
                /\ tested' = (r.raised = "none")
                /\ log' = r.log
                /\ net' = 1
                /\ alert' = IF r.raised = "none"
                            THEN Alert("showinfo", "Testar Conexao", "connected")
                            ELSE Alert("showerror", "Testar Conexao", r.raised)
        /\ importer' = NoImporter
        /\ UNCHANGED <<tables, file_path, pc>>

\* App.import_data up to the drop: the table name and the handle are checked.
App_import_data(name) ==
    /\ pc = "idle"
    /\ event' = Event("import_data", "", "", "", "")
    /\ table_name' = name
    /\ log' = <<>>
    /\ escaped' = "none"
    /\ net' = 0
    /\ pre' = Snapshot
    /\ IF name = ""
       THEN /\ alert' = Alert("showerror", "Importar", "table_name_required")
            /\ pc' = "idle"
       ELSE IF db = NoDb
       THEN /\ alert' = Alert("showerror", "Importar", "db_not_configured")
            /\ pc' = "idle"
       ELSE /\ alert' = NoAlert
            /\ pc' = "drop_table"
    /\ importer' = NoImporter
    /\ UNCHANGED <<db, tables, file_path, tested>>

\* self.db.drop_table(table_name), outside the try: what it raises leaves
\* the callback.
App_drop_table(outcome) ==
    LET r == drop_table(tables, table_name, outcome)
    IN  /\ pc = "drop_table"
        /\ tables' = r.tables
        /\ log' = log \o r.log
        /\ net' = net + r.net
        /\ escaped' = r.raised
        /\ pc' = IF r.raised = "none" THEN "importer" ELSE "idle"
        /\ UNCHANGED <<db, file_path, table_name, importer, alert, event, tested, pre>>

\* importer = Importer(self.db, self.file_path.get())
App_new_importer ==
    /\ pc = "importer"
    /\ importer' = NewImporter(file_path)
    /\ pc' = "import"
    /\ UNCHANGED <<db, tables, file_path, table_name, log, alert, escaped, net, event,
                   tested, pre>>

\* importer.import_data(table_name): the call.
Importer_begin(name) ==
    LET r == import_begin(importer, name)
    IN  /\ importer.state = "not_started"
        /\ importer' = r.importer
        /\ log' = log \o r.log
        /\ UNCHANGED <<db, tables, file_path, pc, table_name, alert, escaped, net, event,
                       tested, pre>>

App_call_import ==
    /\ pc = "import"
    /\ Importer_begin(table_name)

\* Importer.import_data: the reader is built.
Importer_open ==
    LET r == import_open(importer)
    IN  /\ importer.state = "streaming"
        /\ ~importer.opened
        /\ importer' = r.importer
        /\ log' = log \o r.log
        /\ UNCHANGED <<db, tables, file_path, pc, table_name, alert, escaped, net, event,
                       tested, pre>>

\* Importer.import_data: one iteration of the loop.
Importer_chunk(w, created) ==
    LET r == import_chunk(importer, tables, w, created)
    IN  /\ importer.state = "streaming"
        /\ importer.opened
        /\ importer' = r.importer
        /\ tables' = r.tables
        /\ log' = log \o r.log
        /\ net' = net + r.net
        /\ UNCHANGED <<db, file_path, pc, table_name, alert, escaped, event, tested, pre>>

\* App.import_data after the importer returned or raised: the alert.
App_import_return ==
    /\ pc = "import"
    /\ importer.state \in Terminal
    /\ alert' = IF importer.state = "completed"
                THEN Alert("showinfo", "Importar", "imported")
                ELSE Alert("showerror", "Importar", importer.raised)
    /\ pc' = "idle"
    /\ UNCHANGED <<db, tables, file_path, table_name, importer, log, escaped, net, event,
                   tested, pre>>

Next ==
    \/ browse_file
    \/ \E dbname \in Fields, user \in Fields, password \in Fields, host \in Fields,
          outcome \in DbOutcomes :
            App_test_connection(dbname, user, password, host, outcome)
    \/ \E name \in Names : App_import_data(name)
    \/ \E outcome \in {"ok", "OperationalError"} : App_drop_table(outcome)
    \/ App_new_importer
    \/ App_call_import
    \/ Importer_open
    \/ \E w \in WriteOutcomes, created \in BOOLEAN : Importer_chunk(w, created)
    \/ App_import_return

Spec == Init /\ [][Next]_vars

\* The import callback runs to its end once started: the Tk main loop is
\* blocked until it returns and nothing can cancel it.
FairSpec ==
    /\ Spec
    /\ WF_vars(\E outcome \in {"ok", "OperationalError"} : App_drop_table(outcome))
    /\ WF_vars(App_new_importer)
    /\ WF_vars(App_call_import)
    /\ WF_vars(Importer_open)
    /\ WF_vars(\E w \in WriteOutcomes, created \in BOOLEAN : Importer_chunk(w, created))
    /\ WF_vars(App_import_return)

(***************************************************************************)
(* Database and Importer driven directly by a caller, as a test or another *)
(* front end drives them: any table name, the table left as it is.         *)
(***************************************************************************)

Calling == importer.state \in {"not_started", "streaming"}

\* db = Database(dbname, user, password, host)
Api_Database ==
    /\ ~Calling
    /\ db = NoDb
    /\ db' = create_engine("x", "x", "x", "x")
    /\ UNCHANGED <<tables, file_path, pc, table_name, importer, log, alert, escaped, net,
                   event, tested, pre>>

\* db.drop_table(name)
Api_drop_table(name, outcome) ==
    LET r == drop_table(tables, name, outcome)
    IN  /\ ~Calling
        /\ db # NoDb
        /\ event' = Event("drop_table", "", "", "", "")
        /\ table_name' = name
        /\ pre' = Snapshot
        /\ importer' = NoImporter
        /\ tables' = r.tables
        /\ log' = r.log
        /\ net' = r.net
        /\ escaped' = r.raised
        /\ UNCHANGED <<db, file_path, pc, alert, tested>>

\* importer = Importer(db, path)
Api_new_importer(path) ==
    /\ ~Calling
    /\ db # NoDb
    /\ \A n \in TableNames : Len(tables[n].rows) <= MaxStart
    /\ event' = Event("import_data", "", "", "", "")
    /\ pre' = Snapshot
    /\ importer' = NewImporter(path)
    /\ log' = <<>>
    /\ net' = 0
    /\ escaped' = "none"
    /\ UNCHANGED <<db, tables, file_path, pc, table_name, alert, tested>>

\* importer.import_data(name)
Api_import_data(name) == Importer_begin(name)

NextApi ==
    \/ Api_Database
    \/ \E name \in Names, outcome \in {"ok", "OperationalError"} : Api_drop_table(name, outcome)
    \/ \E path \in Files : Api_new_importer(path)
    \/ \E name \in Names : Api_import_data(name)
    \/ Importer_open
    \/ \E w \in WriteOutcomes, created \in BOOLEAN : Importer_chunk(w, created)

SpecApi == Init /\ [][NextApi]_vars

(***************************************************************************)
(* Properties.                                                             *)
(***************************************************************************)

CeilDiv(a, b) == (a + b - 1) \div b

RECURSIVE Flatten(_)
\* The rows of a sequence of batches, in order.
Flatten(batches) ==
    IF batches = <<>> THEN <<>> ELSE Head(batches) \o Flatten(Tail(batches))

Last(q) == q[Len(q)]

HasError(q) == \E i \in 1..Len(q) : q[i].level = "error"

AllInfo(q) == \A i \in 1..Len(q) : q[i].level = "info"

Imported == Alert("showinfo", "Importar", "imported")

\* The batches of a run, its total and the table against a file of N rows
\* written in `count` batches.
WroteFile(count) ==
    LET f == importer.file_path
    IN  /\ importer.total_rows = f.rows
        /\ Flatten(importer.written) = FileRows(f)
        /\ importer.batches = Len(importer.written)
        /\ importer.batches = count
        /\ \A i \in 1..Len(importer.written) : Len(importer.written[i]) <= CHUNKSIZE
        /\ tables[importer.table_name] = Table(FileRows(f))

\* C1 as stated: a run that does not fail writes the N rows of the file, in
\* file order, in exactly ceil(N / B) batches of at most B rows.
C1_CeilBatches ==
    importer.state = "completed"
        => WroteFile(CeilDiv(importer.file_path.rows, CHUNKSIZE))

\* C1, amended: a run that does not fail writes the N rows of the file, in
\* file order, in batches of at most B rows: ceil(N / B) of them when
\* N >= 1, and one empty batch (which creates the table) when N = 0.
C1_RowsInBatches ==
    importer.state = "completed"
        => WroteFile(IF importer.file_path.rows = 0
                     THEN 1
                     ELSE CeilDiv(importer.file_path.rows, CHUNKSIZE))

\* A run completed on a file whose last batch is a short one.
C1_Witness ==
    /\ importer.state = "completed"
    /\ importer.batches >= 2
    /\ importer.file_path.rows % CHUNKSIZE # 0

\* C2: when reading or writing batch K + 1 fails, the table holds exactly
\* the rows of the first K batches, nothing after the failing batch was
\* read or written, and this stays so until the run's Importer is gone.
C2_PartialFailure ==
    importer.state = "aborted"
        => LET K == importer.batches
               f == importer.file_path
           IN  /\ importer.raised # "none"
               /\ Len(importer.written) = K
               /\ Flatten(importer.written) = Range(1, Min(K * CHUNKSIZE, f.rows))
               /\ tables[importer.table_name].rows = Flatten(importer.written)
               /\ K > 0 => tables[importer.table_name].exists
               /\ importer.chunks \in {K, K + 1}
               /\ importer.pos <= Min((K + 1) * CHUNKSIZE, f.rows)

\* A run failed after it had written a batch.
C2_Witness ==
    /\ importer.state = "aborted"
    /\ importer.batches >= 1
    /\ importer.file_path.rows > importer.batches * CHUNKSIZE

\* C3 as stated: no exception leaves the import callback, a failed
\* operation ends in the error alert, and the success alert is shown only
\* when nothing failed.
C3_AllExceptionsCaught ==
    /\ escaped = "none"
    /\ alert = Imported => ~HasError(log)
    /\ (pc = "idle" /\ event.op = "import_data" /\ HasError(log))
            => alert.kind = "showerror"

\* C4: a test-connection with an empty field builds and stores no handle,
\* opens no connection and ends in the validation alert.
C4_EmptyFieldNoConnect ==
    (/\ event.op = "test_connection"
     /\ "" \in {event.dbname, event.user, event.password, event.host})
        => /\ db = pre.db
           /\ net = 0
           /\ log = <<>>
           /\ alert = Alert("showerror", "Testar Conexao", "fields_required")

\* Only the host is empty, and an earlier action had stored a handle.
C4_Witness ==
    /\ event.op = "test_connection"
    /\ event.host = ""
    /\ event.dbname # "" /\ event.user # "" /\ event.password # ""
    /\ pre.db # NoDb
    /\ db = pre.db

\* C5: drop_table on a missing table, the server answering, returns
\* without raising, logs at info level only and changes no table; a second
\* drop of the same name returns as the first did and leaves the tables as
\* the first left them.
C5_DropMissingTable ==
    /\ \A n \in TableNames :
          LET once == drop_table(tables, n, "ok")
              twice == drop_table(once.tables, n, "ok")
          IN  /\ ~tables[n].exists =>
                    /\ once.raised = "none"
                    /\ once.tables = tables
                    /\ once.log # <<>> /\ AllInfo(once.log)
              /\ once.raised = "none" /\ twice.raised = "none"
              /\ twice.tables = once.tables
              /\ AllInfo(twice.log)
    /\ (pc = "importer" /\ ~pre.tables[table_name].exists)
          => /\ tables = pre.tables
             /\ escaped = "none"
             /\ log = <<Entry("info", "table_missing", table_name)>>

\* The drop step of an import returned on a table that did not exist.
C5_Witness ==
    /\ pc = "importer"
    /\ ~pre.tables[table_name].exists
    /\ net = 1

\* C6: import_data with an empty table name raises the validation error
\* before the file is opened: nothing is read or written and no table
\* changes.
C6_EmptyNameNoIO ==
    (importer.state \notin {"none", "not_started"} /\ importer.table_name = "")
        => /\ importer.state = "aborted"
           /\ importer.raised = "ValueError"
           /\ ~importer.opened
           /\ importer.chunks = 0 /\ importer.batches = 0 /\ importer.pos = 0
           /\ net = 0
           /\ tables = pre.tables
           /\ log = <<Entry("error", "table_name_invalid", "")>>

\* import_data was called with the empty name on an existing file.
C6_Witness ==
    /\ importer.state = "aborted"
    /\ importer.table_name = ""
    /\ importer.file_path.kind = "csv"
    /\ importer.file_path.rows > 0

\* The conditions the specification names besides the catch-all.
NamedConditions == {"FileNotFoundError", "ParserError", "IntegrityError"}

\* C7 as stated: a failed import logs an error whose message is the one of
\* its condition (a named condition is not logged with the catch-all's
\* message) and raises the exception that occurred.
C7_SpecificMessages ==
    importer.state = "aborted"
        => /\ importer.raised # "none"
           /\ log # <<>>
           /\ Last(log).level = "error"
           /\ importer.raised \in NamedConditions => Last(log).msg # "import_unexpected"

\* C8 as stated: an import action changes a table or writes a batch only
\* with a handle whose connection test succeeded, and writes batches only
\* after the drop step.
C8_TestedBeforeImport ==
    /\ (event.op = "import_data" /\ (tables # pre.tables \/ importer.batches > 0))
          => (db # NoDb /\ tested)
    /\ importer.batches > 0 => pc \in {"import", "idle"}

\* C9: a run moves only not started -> streaming -> completed | aborted;
\* completed is a normal return with every row written, aborted an
\* exception raised; a finished run stays as it is until its Importer is
\* gone and no table changes meanwhile; and every started run finishes.
C9_RunLifecycle ==
    /\ [][\/ importer'.state = importer.state
          \/ <<importer.state, importer'.state>> \in
                {<<"none", "not_started">>, <<"not_started", "streaming">>,
                 <<"streaming", "completed">>, <<"streaming", "aborted">>}
          \/ importer.state \in Terminal /\ importer' = NoImporter]_vars
    /\ [][importer.state \in Terminal
            => (importer' \in {importer, NoImporter} /\ tables' = tables)]_vars
    /\ [](importer.state = "completed"
            => (importer.raised = "none" /\ importer.total_rows = importer.file_path.rows))
    /\ [](importer.state = "aborted" => importer.raised # "none")
    /\ (importer.state \in {"not_started", "streaming"}) ~> (importer.state \in Terminal)

\* A run that wrote two batches is finished.
C9_Witness ==
    /\ importer.state \in Terminal
    /\ importer.batches >= 2

\* C10: an import action that ends in the success alert leaves the table
\* with exactly the rows of the file, whatever it held before, and every
\* other table as it was; on a table that already holds the file's rows
\* (the same import run before) it changes nothing.
C10_ImportReplaces ==
    (pc = "idle" /\ alert = Imported)
        => /\ tables = [pre.tables EXCEPT ![table_name] = Table(FileRows(file_path))]
           /\ pre.tables[table_name] = Table(FileRows(file_path)) => tables = pre.tables

\* The same import succeeded on a table that already held the file's rows.
C10_Witness ==
    /\ pc = "idle"
    /\ alert = Imported
    /\ file_path.rows >= 1
    /\ pre.tables[table_name] = Table(FileRows(file_path))

====
